---------------------------- MODULE Spec2Model ----------------------------
(***************************************************************************)
(* Tariff restrictions of ocpi-tariffs (src/src/restriction.rs):           *)
(*   collect_restrictions : descriptor -> Result<Vec<Restriction>, Error>  *)
(*   Restriction::is_valid : (restriction, period) -> Option<bool>         *)
(*                                                                         *)
(* Values.  Option<T> is a sequence of length at most one (None is <<>>,   *)
(* Some(v) is <<v>>).  A text (Rust String) is the sequence of the code    *)
(* points of its characters, any character allowed; Text writes one from   *)
(* its characters.  A number of the decimal `Number` type is an integer.   *)
(* An i64 (the seconds of the duration fields) is its sign and the decimal *)
(* digits of its magnitude, so that every i64 can be written; I64 writes   *)
(* one from an integer.                                                    *)
(***************************************************************************)
EXTENDS Integers, Sequences, FiniteSets

VARIABLES
    restriction,  \* the OcpiTariffRestriction handed to collect_restrictions
    period,       \* the ChargePeriod handed to is_valid
    collected,    \* what collect_restrictions returned (Pending before the call)
    subject,      \* Option<Restriction>: the receiver of the latest is_valid call
    outcome,      \* what that call produced (Pending before the call)
    pc            \* position of the caller

vars == <<restriction, period, collected, subject, outcome, pc>>

---------------------------------------------------------------------------
(* Bounds of the model. *)

\* The numeric fields of a descriptor and the bounds of a restriction range
\* over 1..MaxNumber (the duration fields also over the ends of the range of
\* Duration::seconds), the readings of a charge period over 0..MaxNumber+1.
MaxNumber == 2

\* Longest weekday list of a descriptor.
MaxDays == 2

---------------------------------------------------------------------------
(* Option *)

None == <<>>

Some(v) == <<v>>

IsSome(o) == o # None

Unwrap(o) == o[1]

---------------------------------------------------------------------------
(* Text: String comparison as Rust does it, on the UTF-8 bytes, which      *)
(* order two texts as their code points do.                                *)

\* The ASCII characters that a string can be written with, control characters
\* by their escapes, each with its code point.
Ascii ==
    {
      <<"\t", 9>>, <<"\n", 10>>, <<"\f", 12>>, <<"\r", 13>>, <<" ", 32>>,
      <<"!", 33>>, <<"\"", 34>>, <<"#", 35>>, <<"$", 36>>, <<"%", 37>>,
      <<"&", 38>>, <<"'", 39>>, <<"(", 40>>, <<")", 41>>, <<"*", 42>>,
      <<"+", 43>>, <<",", 44>>, <<"-", 45>>, <<".", 46>>, <<"/", 47>>,
      <<"0", 48>>, <<"1", 49>>, <<"2", 50>>, <<"3", 51>>, <<"4", 52>>,
      <<"5", 53>>, <<"6", 54>>, <<"7", 55>>, <<"8", 56>>, <<"9", 57>>,
      <<":", 58>>, <<";", 59>>, <<"<", 60>>, <<"=", 61>>, <<">", 62>>,
      <<"?", 63>>, <<"@", 64>>, <<"A", 65>>, <<"B", 66>>, <<"C", 67>>,
      <<"D", 68>>, <<"E", 69>>, <<"F", 70>>, <<"G", 71>>, <<"H", 72>>,
      <<"I", 73>>, <<"J", 74>>, <<"K", 75>>, <<"L", 76>>, <<"M", 77>>,
      <<"N", 78>>, <<"O", 79>>, <<"P", 80>>, <<"Q", 81>>, <<"R", 82>>,
      <<"S", 83>>, <<"T", 84>>, <<"U", 85>>, <<"V", 86>>, <<"W", 87>>,
      <<"X", 88>>, <<"Y", 89>>, <<"Z", 90>>, <<"[", 91>>, <<"\\", 92>>,
      <<"]", 93>>, <<"^", 94>>, <<"_", 95>>, <<"a", 97>>, <<"b", 98>>,
      <<"c", 99>>, <<"d", 100>>, <<"e", 101>>, <<"f", 102>>, <<"g", 103>>,
      <<"h", 104>>, <<"i", 105>>, <<"j", 106>>, <<"k", 107>>, <<"l", 108>>,
      <<"m", 109>>, <<"n", 110>>, <<"o", 111>>, <<"p", 112>>, <<"q", 113>>,
      <<"r", 114>>, <<"s", 115>>, <<"t", 116>>, <<"u", 117>>, <<"v", 118>>,
      <<"w", 119>>, <<"x", 120>>, <<"y", 121>>, <<"z", 122>>, <<"{", 123>>,
      <<"|", 124>>, <<"}", 125>>, <<"~", 126>>
    }

\* The code point of a character.
CodePoint(c) == (CHOOSE entry \in Ascii : entry[1] = c)[2]

\* The text made of the given characters.
Text(chars) == [i \in 1..Len(chars) |-> CodePoint(chars[i])]

\* The ASCII digits, the only ones a number is read from.
Digits == CodePoint("0")..CodePoint("9")

DigitValue(c) == c - CodePoint("0")

\* The characters str::trim_start strips (char::is_whitespace: the Unicode
\* White_Space property).
WhiteSpace ==
    (9..13) \cup {32, 133, 160, 5760} \cup (8192..8202)
    \cup {8232, 8233, 8239, 8287, 12288}

RECURSIVE TextLt(_, _)
\* a < b for two Strings: lexicographic, a proper prefix is smaller.
TextLt(a, b) ==
    IF Len(b) = 0 THEN FALSE
    ELSE IF Len(a) = 0 THEN TRUE
    ELSE IF Head(a) < Head(b) THEN TRUE
    ELSE IF Head(a) > Head(b) THEN FALSE
    ELSE TextLt(Tail(a), Tail(b))

---------------------------------------------------------------------------
(* Parsing: str::parse::<NaiveTime>() and str::parse::<NaiveDate>(), which *)
(* the builder calls on the text fields (chrono's FromStr).                *)

RECURSIVE DigitRun(_, _)
\* Number of leading digits of s, at most max.
DigitRun(s, max) ==
    IF max = 0 \/ s = <<>> \/ Head(s) \notin Digits THEN 0
    ELSE 1 + DigitRun(Tail(s), max - 1)

RECURSIVE Decimal(_, _)
\* Value of the digit sequence s appended to the value acc read so far.  No
\* field reads more than nine significant digits to a value in its range (the
\* fraction reads nine, the year ends at 262142), so once acc has nine digits
\* the remaining ones are not added: the value stays out of every range, as a
\* larger number and an i64 overflow do in the code.
Decimal(s, acc) ==
    IF s = <<>> \/ acc >= 100000000 THEN acc
    ELSE Decimal(Tail(s), acc * 10 + DigitValue(Head(s)))

\* An unsigned number of one to max digits at the head of s.
ScanNumber(s, max) ==
    LET n == DigitRun(s, max) IN
    IF n = 0 THEN [ok |-> FALSE, value |-> 0, rest |-> s]
    ELSE [ok |-> TRUE,
          value |-> Decimal(SubSeq(s, 1, n), 0),
          rest |-> SubSeq(s, n + 1, Len(s))]

RECURSIVE TrimStart(_)
\* s without its leading white space (str::trim_start).
TrimStart(s) ==
    IF s # <<>> /\ Head(s) \in WhiteSpace THEN TrimStart(Tail(s)) ELSE s

RECURSIVE Pow10(_)
Pow10(n) == IF n = 0 THEN 1 ELSE 10 * Pow10(n - 1)

\* The digits after the "." of a fraction of a second, as nanoseconds: the
\* first nine count, any further digit is skipped.
ScanNanosecond(s) ==
    LET n == DigitRun(s, 9)
        after == SubSeq(s, n + 1, Len(s))
    IN  IF n = 0 THEN [ok |-> FALSE, value |-> 0, rest |-> s]
        ELSE [ok |-> TRUE,
              value |-> Decimal(SubSeq(s, 1, n), 0) * Pow10(9 - n),
              rest |-> SubSeq(after, DigitRun(after, Len(after)) + 1, Len(after))]

\* A NaiveTime: seconds since midnight, and the nanoseconds (a leap second is
\* second 59 with 1,000,000,000 nanoseconds more).
TimeNano(h, m, s, nano) ==
    IF s = 60 THEN [secs |-> h * 3600 + m * 60 + 59, frac |-> 1000000000 + nano]
    ELSE [secs |-> h * 3600 + m * 60 + s, frac |-> nano]

Time(h, m, s) == TimeNano(h, m, s, 0)

TimeLt(a, b) == a.secs < b.secs \/ (a.secs = b.secs /\ a.frac < b.frac)

TimeGe(a, b) == ~TimeLt(a, b)

ParseFailed == [ok |-> FALSE, value |-> <<>>]

Parsed(v) == [ok |-> TRUE, value |-> <<v>>]

NoSeconds == [ok |-> FALSE, second |-> 0, nano |-> 0, rest |-> <<>>]

\* The optional tail of a time text: white space, ":", the second (0..60,
\* white space may precede it), a fraction when a "." follows at once, white
\* space.
ScanSeconds(s) ==
    LET colon == TrimStart(s) IN
    IF colon = <<>> \/ Head(colon) # CodePoint(":") THEN NoSeconds
    ELSE
      LET second == ScanNumber(TrimStart(Tail(colon)), 2) IN
      IF ~second.ok \/ second.value > 60 THEN NoSeconds
      ELSE
        LET nano == IF second.rest # <<>> /\ Head(second.rest) = CodePoint(".")
                    THEN ScanNanosecond(Tail(second.rest))
                    ELSE [ok |-> TRUE, value |-> 0, rest |-> second.rest]
        IN  IF ~nano.ok THEN NoSeconds
            ELSE [ok |-> TRUE, second |-> second.value, nano |-> nano.value,
                  rest |-> TrimStart(nano.rest)]

\* "H:M", "H:M:S" or "H:M:S.f", each number of one or two digits; hour 0..23,
\* minute 0..59, second 0..60; white space may stand before a number, before a ":"
\* and at the end; nothing else may follow.  When the tail of seconds does not
\* parse it is left unread, and is then what follows.
ParseTime(s) ==
    LET hour == ScanNumber(TrimStart(s), 2) IN
    IF ~hour.ok \/ hour.value > 23 THEN ParseFailed
    ELSE
      LET colon == TrimStart(hour.rest) IN
      IF colon = <<>> \/ Head(colon) # CodePoint(":") THEN ParseFailed
      ELSE
        LET minute == ScanNumber(TrimStart(Tail(colon)), 2) IN
        IF ~minute.ok \/ minute.value > 59 THEN ParseFailed
        ELSE
          LET seconds == ScanSeconds(minute.rest) IN
          IF seconds.ok
          THEN IF seconds.rest = <<>>
               THEN Parsed(TimeNano(hour.value, minute.value,
                                    seconds.second, seconds.nano))
               ELSE ParseFailed
          ELSE IF TrimStart(minute.rest) = <<>>
               THEN Parsed(Time(hour.value, minute.value, 0))
               ELSE ParseFailed

\* A NaiveDate.
Date(y, m, d) == [year |-> y, month |-> m, day |-> d]

DateLt(a, b) ==
    \/ a.year < b.year
    \/ a.year = b.year /\ a.month < b.month
    \/ a.year = b.year /\ a.month = b.month /\ a.day < b.day

DateGe(a, b) == ~DateLt(a, b)

IsLeapYear(y) == (y % 4 = 0 /\ y % 100 # 0) \/ y % 400 = 0

DaysInMonth(y, m) ==
    IF m = 2 THEN (IF IsLeapYear(y) THEN 29 ELSE 28)
    ELSE IF m \in {4, 6, 9, 11} THEN 30
    ELSE 31

\* The year of a date text, after its leading white space: "-" or "+" and any
\* number of digits, or up to four digits.
ScanYear(s) ==
    LET t == TrimStart(s) IN
    IF t # <<>> /\ Head(t) = CodePoint("-")
    THEN LET n == ScanNumber(Tail(t), Len(t)) IN
         [ok |-> n.ok, value |-> 0 - n.value, rest |-> n.rest]
    ELSE IF t # <<>> /\ Head(t) = CodePoint("+")
    THEN ScanNumber(Tail(t), Len(t))
    ELSE ScanNumber(t, 4)

\* "Y-M-D"; month 1..12, day within the month; white space may stand before a
\* number, before a "-" separator and at the end; nothing else may follow.
ParseDate(s) ==
    LET year == ScanYear(s) IN
    IF ~year.ok \/ year.value < -262143 \/ year.value > 262142 THEN ParseFailed
    ELSE
      LET dash1 == TrimStart(year.rest) IN
      IF dash1 = <<>> \/ Head(dash1) # CodePoint("-") THEN ParseFailed
      ELSE
        LET month == ScanNumber(TrimStart(Tail(dash1)), 2) IN
        IF ~month.ok \/ month.value < 1 \/ month.value > 12 THEN ParseFailed
        ELSE
          LET dash2 == TrimStart(month.rest) IN
          IF dash2 = <<>> \/ Head(dash2) # CodePoint("-") THEN ParseFailed
          ELSE
            LET day == ScanNumber(TrimStart(Tail(dash2)), 2) IN
            IF ~day.ok \/ TrimStart(day.rest) # <<>> THEN ParseFailed
            ELSE IF day.value < 1
                    \/ day.value > DaysInMonth(year.value, month.value)
                 THEN ParseFailed
            ELSE Parsed(Date(year.value, month.value, day.value))

---------------------------------------------------------------------------
(* i64 and chrono::Duration *)

RECURSIVE DecimalDigits(_)
\* The decimal digits of a natural number, most significant first.
DecimalDigits(n) ==
    IF n < 10 THEN <<n>> ELSE Append(DecimalDigits(n \div 10), n % 10)

\* The i64 of an integer: its sign and the digits of its magnitude, without
\* leading zeros.
I64(n) == [negative |-> n < 0, digits |-> DecimalDigits(IF n < 0 THEN -n ELSE n)]

\* i64::MAX.
I64Max ==
    [negative |-> FALSE,
     digits |-> <<9, 2, 2, 3, 3, 7, 2, 0, 3, 6, 8, 5, 4, 7, 7, 5, 8, 0, 7>>]

\* a < b for the magnitudes of two i64: the shorter is smaller, two of one
\* length compare digit by digit.
MagnitudeLt(a, b) == Len(a) < Len(b) \/ (Len(a) = Len(b) /\ TextLt(a, b))

\* a < b for two i64.
I64Lt(a, b) ==
    IF a.negative /\ ~b.negative THEN TRUE
    ELSE IF ~a.negative /\ b.negative THEN FALSE
    ELSE IF a.negative THEN MagnitudeLt(b.digits, a.digits)
    ELSE MagnitudeLt(a.digits, b.digits)

\* A call returned a value, or it panicked.
Returned(v) == [tag |-> "Returned", value |-> v]

Panicked == [tag |-> "Panicked", value |-> None]

\* The largest number of seconds of a Duration, i64::MAX / 1000; the smallest
\* is its opposite.
MaxDurationSeconds ==
    [negative |-> FALSE, digits |-> <<9, 2, 2, 3, 3, 7, 2, 0, 3, 6, 8, 5, 4, 7, 7, 5>>]

\* The Duration of secs whole seconds.
DurationOf(secs) == [secs |-> secs, nanos |-> 0]

\* Duration::seconds(n): panics when n is beyond i64::MAX / 1000 seconds, on
\* either side of zero.
DurationSeconds(n) ==
    IF MagnitudeLt(MaxDurationSeconds.digits, n.digits) THEN Panicked
    ELSE Returned(DurationOf(n))

DurationLt(a, b) ==
    I64Lt(a.secs, b.secs) \/ (a.secs = b.secs /\ a.nanos < b.nanos)

DurationGe(a, b) == ~DurationLt(a, b)

\* The descriptor's weekday token as a chrono Weekday (Into::into).
WeekdayFrom(token) ==
    CASE token = "MONDAY" -> "Mon"
      [] token = "TUESDAY" -> "Tue"
      [] token = "WEDNESDAY" -> "Wed"
      [] token = "THURSDAY" -> "Thu"
      [] token = "FRIDAY" -> "Fri"
      [] token = "SATURDAY" -> "Sat"
      [] token = "SUNDAY" -> "Sun"

---------------------------------------------------------------------------
(* enum Restriction *)

StartTime(t) == [variant |-> "StartTime", time |-> t]

EndTime(t) == [variant |-> "EndTime", time |-> t]

WrappingTime(s, e) == [variant |-> "WrappingTime", start_time |-> s, end_time |-> e]

StartDate(d) == [variant |-> "StartDate", date |-> d]

EndDate(d) == [variant |-> "EndDate", date |-> d]

MinKwh(v) == [variant |-> "MinKwh", number |-> v]

MaxKwh(v) == [variant |-> "MaxKwh", number |-> v]

MinCurrent(v) == [variant |-> "MinCurrent", number |-> v]

MaxCurrent(v) == [variant |-> "MaxCurrent", number |-> v]

MinPower(v) == [variant |-> "MinPower", number |-> v]

MaxPower(v) == [variant |-> "MaxPower", number |-> v]

MinDuration(d) == [variant |-> "MinDuration", duration |-> d]

MaxDuration(d) == [variant |-> "MaxDuration", duration |-> d]

DayOfWeek(days) == [variant |-> "DayOfWeek", days |-> days]

Reservation == [variant |-> "Reservation"]

---------------------------------------------------------------------------
(* collect_restrictions *)

\* Result<Vec<Restriction>, Error>: an Err carries no list.  A call that
\* panics returns nothing.
Ok(list) == [tag |-> "Ok", list |-> list]

Err == [tag |-> "Err", list |-> <<>>]

Aborted == [tag |-> "Panic", list |-> <<>>]

Pending == [tag |-> "Pending", list |-> <<>>]

\* `collected` so far, then one more field: the first `?` that fails returns
\* its error and drops what was collected, the first panic ends the call;
\* otherwise the field's entries are pushed at the end.
AndThen(acc, step) ==
    IF acc.tag # "Ok" THEN acc
    ELSE IF step.tag # "Ok" THEN step
    ELSE Ok(acc.list \o step.list)

\* Variant of time_window: the window never wraps, both ends are always pushed on
\* their own.
time_window_split(r) ==
    AndThen(
      IF IsSome(r.start_time)
      THEN LET s == ParseTime(Unwrap(r.start_time)) IN
           IF s.ok THEN Ok(<<StartTime(Unwrap(s.value))>>) ELSE Err
      ELSE Ok(<<>>),
      IF IsSome(r.end_time)
      THEN LET e == ParseTime(Unwrap(r.end_time)) IN
           IF e.ok THEN Ok(<<EndTime(Unwrap(e.value))>>) ELSE Err
      ELSE Ok(<<>>))

\* The match on (start_time, end_time): one WrappingTime when both are given and
\* the end text is smaller than the start text, else StartTime and EndTime, each
\* when given.
time_window(r) ==
    IF IsSome(r.start_time) /\ IsSome(r.end_time)
       /\ TextLt(Unwrap(r.end_time), Unwrap(r.start_time))
    THEN LET s == ParseTime(Unwrap(r.start_time))
             e == ParseTime(Unwrap(r.end_time))
         IN  IF ~s.ok THEN Err
             ELSE IF ~e.ok THEN Err
             ELSE Ok(<<WrappingTime(Unwrap(s.value), Unwrap(e.value))>>)
    ELSE AndThen(
           IF IsSome(r.start_time)
           THEN LET s == ParseTime(Unwrap(r.start_time)) IN
                IF s.ok THEN Ok(<<StartTime(Unwrap(s.value))>>) ELSE Err
           ELSE Ok(<<>>),
           IF IsSome(r.end_time)
           THEN LET e == ParseTime(Unwrap(r.end_time)) IN
                IF e.ok THEN Ok(<<EndTime(Unwrap(e.value))>>) ELSE Err
           ELSE Ok(<<>>))

start_date_entry(r) ==
    IF IsSome(r.start_date)
    THEN LET d == ParseDate(Unwrap(r.start_date)) IN
         IF d.ok THEN Ok(<<StartDate(Unwrap(d.value))>>) ELSE Err
    ELSE Ok(<<>>)

end_date_entry(r) ==
    IF IsSome(r.end_date)
    THEN LET d == ParseDate(Unwrap(r.end_date)) IN
         IF d.ok THEN Ok(<<EndDate(Unwrap(d.value))>>) ELSE Err
    ELSE Ok(<<>>)

\* The fields of the Number type, in the order of their `if let`s.
number_entries(r) ==
       (IF IsSome(r.min_kwh) THEN <<MinKwh(Unwrap(r.min_kwh))>> ELSE <<>>)
    \o (IF IsSome(r.max_kwh) THEN <<MaxKwh(Unwrap(r.max_kwh))>> ELSE <<>>)
    \o (IF IsSome(r.min_current) THEN <<MinCurrent(Unwrap(r.min_current))>> ELSE <<>>)
    \o (IF IsSome(r.max_current) THEN <<MaxCurrent(Unwrap(r.max_current))>> ELSE <<>>)
    \o (IF IsSome(r.min_power) THEN <<MinPower(Unwrap(r.min_power))>> ELSE <<>>)
    \o (IF IsSome(r.max_power) THEN <<MaxPower(Unwrap(r.max_power))>> ELSE <<>>)

min_duration_entry(r) ==
    IF IsSome(r.min_duration)
    THEN LET d == DurationSeconds(Unwrap(r.min_duration)) IN
         IF d.tag = "Panicked" THEN Aborted ELSE Ok(<<MinDuration(d.value)>>)
    ELSE Ok(<<>>)

max_duration_entry(r) ==
    IF IsSome(r.max_duration)
    THEN LET d == DurationSeconds(Unwrap(r.max_duration)) IN
         IF d.tag = "Panicked" THEN Aborted ELSE Ok(<<MaxDuration(d.value)>>)
    ELSE Ok(<<>>)

\* Variant of day_of_week_entry: an empty weekday list still pushes a DayOfWeek,
\* with the empty set.
day_of_week_entry_always(r) ==
    <<DayOfWeek({WeekdayFrom(r.day_of_week[i]) : i \in DOMAIN r.day_of_week})>>

\* HashSet::from_iter over the converted tokens, when there is any token.
day_of_week_entry(r) ==
    IF r.day_of_week # <<>>
    THEN <<DayOfWeek({WeekdayFrom(r.day_of_week[i]) : i \in DOMAIN r.day_of_week})>>
    ELSE <<>>

\* Variant of collect_restrictions: the dates are pushed before the time window.
collect_restrictions_dates_first(r) ==
    AndThen(AndThen(AndThen(AndThen(AndThen(AndThen(AndThen(Ok(<<>>),
        start_date_entry(r)),
        end_date_entry(r)),
        time_window(r)),
        Ok(number_entries(r))),
        min_duration_entry(r)),
        max_duration_entry(r)),
        Ok(day_of_week_entry(r)))

\* Variant of collect_restrictions: a reservation flag pushes Restriction::Reservation.
collect_restrictions_with_reservation(r) ==
    AndThen(AndThen(AndThen(AndThen(AndThen(AndThen(AndThen(AndThen(Ok(<<>>),
        time_window(r)),
        start_date_entry(r)),
        end_date_entry(r)),
        Ok(number_entries(r))),
        min_duration_entry(r)),
        max_duration_entry(r)),
        Ok(day_of_week_entry(r))),
        Ok(IF IsSome(r.reservation) THEN <<Reservation>> ELSE <<>>))

\* The reservation field of the descriptor is never read.
collect_restrictions(r) ==
    AndThen(AndThen(AndThen(AndThen(AndThen(AndThen(AndThen(Ok(<<>>),
        time_window(r)),
        start_date_entry(r)),
        end_date_entry(r)),
        Ok(number_entries(r))),
        min_duration_entry(r)),
        max_duration_entry(r)),
        Ok(day_of_week_entry(r)))

---------------------------------------------------------------------------
(* Restriction::is_valid *)

\* is_valid has not been called yet.
NotCalled == [tag |-> "Pending", value |-> None]

\* Option::map over a reading of the period.
AtLeast(reading, bound) == IF IsSome(reading) THEN Some(Unwrap(reading) >= bound) ELSE None

Below(reading, bound) == IF IsSome(reading) THEN Some(Unwrap(reading) < bound) ELSE None

LastsAtLeast(reading, bound) ==
    IF IsSome(reading) THEN Some(DurationGe(Unwrap(reading), bound)) ELSE None

LastsBelow(reading, bound) ==
    IF IsSome(reading) THEN Some(DurationLt(Unwrap(reading), bound)) ELSE None

\* Variant of is_valid with closed intervals: every upper bound is inclusive
\* (<= where the code has <).
is_valid_closed_intervals(self, p) ==
    CASE self.variant = "WrappingTime" ->
           Returned(Some(TimeGe(p.local_start_time, self.start_time)
                         \/ ~TimeLt(self.end_time, p.local_start_time)))
      [] self.variant = "StartTime" ->
           Returned(Some(TimeGe(p.local_start_time, self.time)))
      [] self.variant = "EndTime" ->
           Returned(Some(~TimeLt(self.time, p.local_start_time)))
      [] self.variant = "StartDate" ->
           Returned(Some(DateGe(p.local_start_date, self.date)))
      [] self.variant = "EndDate" ->
           Returned(Some(~DateLt(self.date, p.local_start_date)))
      [] self.variant = "MinKwh" ->
           Returned(AtLeast(p.start_aggregate.energy, self.number))
      [] self.variant = "MaxKwh" ->
           Returned(Below(p.start_aggregate.energy, self.number + 1))
      [] self.variant = "MinDuration" ->
           Returned(LastsAtLeast(p.start_aggregate.duration, self.duration))
      [] self.variant = "MaxDuration" ->
           Returned(IF IsSome(p.start_aggregate.duration)
                    THEN Some(~DurationLt(self.duration, Unwrap(p.start_aggregate.duration)))
                    ELSE None)
      [] self.variant = "MinCurrent" ->
           Returned(AtLeast(p.state.min_current, self.number))
      [] self.variant = "MaxCurrent" ->
           Returned(Below(p.state.max_current, self.number + 1))
      [] self.variant = "MinPower" ->
           Returned(AtLeast(p.state.min_power, self.number))
      [] self.variant = "MaxPower" ->
           Returned(Below(p.state.max_power, self.number + 1))
      [] self.variant = "DayOfWeek" ->
           Returned(Some(p.local_start_weekday \in self.days))
      [] self.variant = "Reservation" -> Panicked

is_valid(self, p) ==
    CASE self.variant = "WrappingTime" ->
           Returned(Some(TimeGe(p.local_start_time, self.start_time)
                         \/ TimeLt(p.local_start_time, self.end_time)))
      [] self.variant = "StartTime" ->
           Returned(Some(TimeGe(p.local_start_time, self.time)))
      [] self.variant = "EndTime" ->
           Returned(Some(TimeLt(p.local_start_time, self.time)))
      [] self.variant = "StartDate" ->
           Returned(Some(DateGe(p.local_start_date, self.date)))
      [] self.variant = "EndDate" ->
           Returned(Some(DateLt(p.local_start_date, self.date)))
      [] self.variant = "MinKwh" ->
           Returned(AtLeast(p.start_aggregate.energy, self.number))
      [] self.variant = "MaxKwh" ->
           Returned(Below(p.start_aggregate.energy, self.number))
      [] self.variant = "MinDuration" ->
           Returned(LastsAtLeast(p.start_aggregate.duration, self.duration))
      [] self.variant = "MaxDuration" ->
           Returned(LastsBelow(p.start_aggregate.duration, self.duration))
      [] self.variant = "MinCurrent" ->
           Returned(AtLeast(p.state.min_current, self.number))
      [] self.variant = "MaxCurrent" ->
           Returned(Below(p.state.max_current, self.number))
      [] self.variant = "MinPower" ->
           Returned(AtLeast(p.state.min_power, self.number))
      [] self.variant = "MaxPower" ->
           Returned(Below(p.state.max_power, self.number))
      [] self.variant = "DayOfWeek" ->
           Returned(Some(p.local_start_weekday \in self.days))
      [] self.variant = "Reservation" -> Panicked

---------------------------------------------------------------------------
(* Inputs *)

\* Time-of-day texts: "06:00", "22:00", "22:00:00", "9:00:00", "10:00:00",
\* "\t22:00" (a leading tab), "22:00:00.5" (a fraction), and "24:00", which
\* is no time of day.
TimeTexts ==
    { Text(<<"0", "6", ":", "0", "0">>),
      Text(<<"\t", "2", "2", ":", "0", "0">>),
      Text(<<"2", "2", ":", "0", "0", ":", "0", "0", ".", "5">>),
      Text(<<"2", "2", ":", "0", "0">>),
      Text(<<"2", "2", ":", "0", "0", ":", "0", "0">>),
      Text(<<"9", ":", "0", "0", ":", "0", "0">>),
      Text(<<"1", "0", ":", "0", "0", ":", "0", "0">>),
      Text(<<"2", "4", ":", "0", "0">>) }

\* Calendar-date texts: "2024-01-15", "+2024-1-16" and a line feed (a sign, a
\* one-digit month, trailing white space), and "2023-02-29" and "2024-13-40", which are no
\* dates.
DateTexts ==
    { Text(<<"2", "0", "2", "4", "-", "0", "1", "-", "1", "5">>),
      Text(<<"+", "2", "0", "2", "4", "-", "1", "-", "1", "6", "\n">>),
      Text(<<"2", "0", "2", "3", "-", "0", "2", "-", "2", "9">>),
      Text(<<"2", "0", "2", "4", "-", "1", "3", "-", "4", "0">>) }

Optional(S) == {None} \cup {Some(v) : v \in S}

Numbers == 1..MaxNumber

\* -(i64::MAX / 1000) - 1, the first i64 below the range of Duration::seconds.
BelowMinDurationSeconds ==
    [negative |-> TRUE, digits |-> <<9, 2, 2, 3, 3, 7, 2, 0, 3, 6, 8, 5, 4, 7, 7, 6>>]

\* Seconds of a duration field: small counts, the largest count
\* Duration::seconds takes and the first it does not take below zero.
SecondsCounts ==
    {I64(n) : n \in Numbers} \cup {MaxDurationSeconds, BelowMinDurationSeconds}

DayTokens ==
    {"MONDAY", "TUESDAY", "WEDNESDAY", "THURSDAY", "FRIDAY", "SATURDAY", "SUNDAY"}

\* Weekday lists of at most MaxDays tokens, duplicates allowed.
DayLists == UNION {[1..n -> DayTokens] : n \in 0..MaxDays}

\* The reservation field of the descriptor.
ReservationFlags == {"RESERVATION"}

\* Descriptors that vary every text field, with a few of the other fields.
TextDescriptors ==
    [start_time : Optional(TimeTexts), end_time : Optional(TimeTexts),
     start_date : Optional(DateTexts), end_date : Optional(DateTexts),
     min_kwh : Optional({1}), max_kwh : {None},
     min_current : {None}, max_current : {None},
     min_power : {None}, max_power : {None},
     min_duration : {None}, max_duration : Optional({I64(1), I64Max}),
     day_of_week : {<<>>}, reservation : {None}]

\* Descriptors that vary which of the fields that need no parsing are given.
PresenceDescriptors ==
    [start_time : Optional({Text(<<"0", "6", ":", "0", "0">>)}),
     end_time : {Some(Text(<<"2", "2", ":", "0", "0">>))},
     start_date : {Some(Text(<<"2", "0", "2", "4", "-", "0", "1", "-", "1", "5">>))},
     end_date : {Some(Text(<<"2", "0", "2", "4", "-", "0", "1", "-", "1", "5">>))},
     min_kwh : Optional({1}), max_kwh : Optional({1}),
     min_current : Optional({1}), max_current : Optional({1}),
     min_power : Optional({1}), max_power : Optional({1}),
     min_duration : Optional({I64(1)}), max_duration : Optional({I64(1)}),
     day_of_week : {<<"MONDAY">>}, reservation : Optional(ReservationFlags)]

\* Descriptors that give every field that needs no parsing and vary its value.
ValueDescriptors ==
    [start_time : {None}, end_time : {None},
     start_date : {None}, end_date : {None},
     min_kwh : Optional(Numbers) \ {None}, max_kwh : Optional(Numbers) \ {None},
     min_current : Optional(Numbers) \ {None}, max_current : Optional(Numbers) \ {None},
     min_power : Optional(Numbers) \ {None}, max_power : Optional(Numbers) \ {None},
     min_duration : Optional(SecondsCounts) \ {None},
     max_duration : Optional(SecondsCounts) \ {None},
     day_of_week : {<<>>}, reservation : {None}]

\* Descriptors that vary the weekday list.
DayDescriptors ==
    [start_time : {None}, end_time : {None},
     start_date : {None}, end_date : {None},
     min_kwh : {None}, max_kwh : {None},
     min_current : {None}, max_current : {None},
     min_power : {None}, max_power : {None},
     min_duration : {None}, max_duration : {None},
     day_of_week : DayLists, reservation : {None}]

NoDescriptor ==
    [start_time |-> None, end_time |-> None, start_date |-> None, end_date |-> None,
     min_kwh |-> None, max_kwh |-> None, min_current |-> None, max_current |-> None,
     min_power |-> None, max_power |-> None, min_duration |-> None,
     max_duration |-> None, day_of_week |-> <<>>, reservation |-> None]

\* Local start times of a period: 00:00, 06:00, 12:00, 22:00.
PeriodTimes == {Time(0, 0, 0), Time(6, 0, 0), Time(12, 0, 0), Time(22, 0, 0)}

\* Local start date and weekday of a period: Monday 2024-01-15, Tuesday
\* 2024-01-16, Sunday 2024-01-14.
PeriodDays ==
    { [date |-> Date(2024, 1, 15), weekday |-> "Mon"],
      [date |-> Date(2024, 1, 16), weekday |-> "Tue"],
      [date |-> Date(2024, 1, 14), weekday |-> "Sun"] }

Readings == 0..(MaxNumber + 1)

\* A period whose measurements are all missing (reading = None) or all the
\* same (reading = Some(n)).
PeriodWith(t, d, reading) ==
    [local_start_time |-> t,
     local_start_date |-> d.date,
     local_start_weekday |-> d.weekday,
     start_aggregate |->
        [energy |-> reading,
         duration |-> IF IsSome(reading)
                      THEN Some(DurationOf(I64(Unwrap(reading)))) ELSE None],
     state |-> [min_current |-> reading, max_current |-> reading,
                min_power |-> reading, max_power |-> reading]]

UniformPeriods ==
    {PeriodWith(t, d, reading) :
        t \in PeriodTimes, d \in PeriodDays, reading \in {None, Some(1)}}

\* The uniform periods, and those that differ from one in a single measurement.
Periods ==
    UniformPeriods
    \cup {[p EXCEPT !.start_aggregate.energy = v] :
            p \in UniformPeriods, v \in Optional(Readings)}
    \cup {[p EXCEPT !.start_aggregate.duration = v] :
            p \in UniformPeriods, v \in Optional({DurationOf(I64(n)) : n \in Readings})}
    \cup {[p EXCEPT !.state.min_current = v] :
            p \in UniformPeriods, v \in Optional(Readings)}
    \cup {[p EXCEPT !.state.max_current = v] :
            p \in UniformPeriods, v \in Optional(Readings)}
    \cup {[p EXCEPT !.state.min_power = v] :
            p \in UniformPeriods, v \in Optional(Readings)}
    \cup {[p EXCEPT !.state.max_power = v] :
            p \in UniformPeriods, v \in Optional(Readings)}

\* A period at noon with measurements, and two periods for the builds that
\* vary the descriptor.
NoonPeriods ==
    { PeriodWith(Time(12, 0, 0), [date |-> Date(2024, 1, 15), weekday |-> "Mon"], Some(1)) }

FewPeriods ==
    { PeriodWith(Time(12, 0, 0), [date |-> Date(2024, 1, 15), weekday |-> "Mon"], None),
      PeriodWith(Time(22, 0, 0), [date |-> Date(2024, 1, 16), weekday |-> "Tue"], Some(1)) }

\* Restriction values built by hand, every variant of the enum.
RestrictionTimes == {Time(6, 0, 0), Time(22, 0, 0)}

RestrictionDates == {Date(2024, 1, 15), Date(2024, 1, 16)}

Restrictions ==
    {StartTime(t) : t \in RestrictionTimes}
    \cup {EndTime(t) : t \in RestrictionTimes}
    \cup {WrappingTime(s, e) : s \in RestrictionTimes, e \in RestrictionTimes}
    \cup {StartDate(d) : d \in RestrictionDates}
    \cup {EndDate(d) : d \in RestrictionDates}
    \cup {MinKwh(v) : v \in Numbers} \cup {MaxKwh(v) : v \in Numbers}
    \cup {MinCurrent(v) : v \in Numbers} \cup {MaxCurrent(v) : v \in Numbers}
    \cup {MinPower(v) : v \in Numbers} \cup {MaxPower(v) : v \in Numbers}
    \cup {MinDuration(DurationOf(v)) : v \in SecondsCounts \ {BelowMinDurationSeconds}}
    \cup {MaxDuration(DurationOf(v)) : v \in SecondsCounts \ {BelowMinDurationSeconds}}
    \cup {DayOfWeek(days) : days \in SUBSET {"Mon", "Tue", "Sat"}}
    \cup {Reservation}

---------------------------------------------------------------------------
(* The state machine: a caller builds the restrictions of one descriptor   *)
(* and evaluates them against a period, or evaluates a Restriction it      *)
(* built by hand.                                                          *)

\* A descriptor and a period, before collect_restrictions is called.
InitBuild ==
    /\ \/ restriction \in TextDescriptors \cup PresenceDescriptors /\ period \in FewPeriods
       \/ restriction \in ValueDescriptors /\ period \in NoonPeriods
       \/ restriction \in DayDescriptors /\ period \in UniformPeriods
    /\ collected = Pending
    /\ subject = None
    /\ outcome = NotCalled
    /\ pc = "descriptor"

\* A Restriction built by hand and a period, before is_valid is called.
InitDirect ==
    /\ restriction = NoDescriptor
    /\ period \in Periods
    /\ collected = Pending
    /\ subject \in {Some(r) : r \in Restrictions}
    /\ outcome = NotCalled
    /\ pc = "constructed"

Init == InitBuild \/ InitDirect

\* collect_restrictions(&restriction)
CollectRestrictions ==
    /\ pc = "descriptor"
    /\ collected' = collect_restrictions(restriction)
    /\ pc' = IF collected'.tag = "Panic" THEN "aborted" ELSE "collected"
    /\ UNCHANGED <<restriction, period, subject, outcome>>

\* collected[i].is_valid(&period), for a list the builder returned
IsValidCollected ==
    /\ pc \in {"collected", "evaluated"}
    /\ collected.tag = "Ok"
    /\ \E i \in DOMAIN collected.list :
         /\ subject' = Some(collected.list[i])
         /\ outcome' = is_valid(collected.list[i], period)
    /\ pc' = IF outcome'.tag = "Panicked" THEN "aborted" ELSE "evaluated"
    /\ UNCHANGED <<restriction, period, collected>>

\* subject.is_valid(&period), for a Restriction built by hand
IsValidDirect ==
    /\ pc = "constructed"
    /\ outcome' = is_valid(Unwrap(subject), period)
    /\ pc' = IF outcome'.tag = "Panicked" THEN "aborted" ELSE "evaluated"
    /\ UNCHANGED <<restriction, period, collected, subject>>

Next == CollectRestrictions \/ IsValidCollected \/ IsValidDirect

Spec == Init /\ [][Next]_vars

---------------------------------------------------------------------------
(* Properties *)

\* collect_restrictions has been called.
Called == collected.tag # "Pending"

\* collect_restrictions has returned.
Built == collected.tag \in {"Ok", "Err"}

\* is_valid has been called.
Evaluated == outcome.tag # "Pending"

\* Number of entries of the returned list of variant v.
Count(v) == Cardinality({i \in DOMAIN collected.list : collected.list[i].variant = v})

\* The entries of the returned list of variant v.
Entries(v) == {collected.list[i] : i \in {j \in DOMAIN collected.list :
                                             collected.list[j].variant = v}}

\* 1 when the optional field is given, else 0.
Given(field) == IF IsSome(field) THEN 1 ELSE 0

\* Both times are given and the end text is smaller than the start text.
Wraps ==
    /\ IsSome(restriction.start_time)
    /\ IsSome(restriction.end_time)
    /\ TextLt(Unwrap(restriction.end_time), Unwrap(restriction.start_time))

TimeFails(field) == IsSome(field) /\ ~ParseTime(Unwrap(field)).ok

DateFails(field) == IsSome(field) /\ ~ParseDate(Unwrap(field)).ok

\* A text field of the descriptor is given and does not parse.
SomeTextFails ==
    \/ TimeFails(restriction.start_time)
    \/ TimeFails(restriction.end_time)
    \/ DateFails(restriction.start_date)
    \/ DateFails(restriction.end_date)

\* C1: when every text field parses, a descriptor whose end_time text is
\* smaller than its start_time text yields exactly one WrappingTime carrying
\* the two parsed times and no StartTime or EndTime; any other descriptor
\* yields no WrappingTime, one StartTime iff start_time is given and one
\* EndTime iff end_time is given.
C1_TimeWindowRule ==
    collected.tag = "Ok" =>
      IF Wraps
      THEN /\ Count("WrappingTime") = 1
           /\ Entries("WrappingTime") =
                {WrappingTime(Unwrap(ParseTime(Unwrap(restriction.start_time)).value),
                              Unwrap(ParseTime(Unwrap(restriction.end_time)).value))}
           /\ Count("StartTime") = 0
           /\ Count("EndTime") = 0
      ELSE /\ Count("WrappingTime") = 0
           /\ Count("StartTime") = Given(restriction.start_time)
           /\ Count("EndTime") = Given(restriction.end_time)

\* A build that took the wrapping branch ("22:00" to "06:00" among others).
C1_Witness ==
    /\ collected.tag = "Ok"
    /\ Wraps
    /\ Count("WrappingTime") = 1
    /\ Len(collected.list) > 1

\* C2: collect_restrictions returns an error, with no list, iff some given
\* text field fails to parse, in the wrapping branch as well and whatever
\* the other fields hold; otherwise it returns Ok.
C2_FailFast ==
    Called =>
      /\ collected.tag \in {"Ok", "Err"}
      /\ collected.tag = "Err" <=> SomeTextFails
      /\ collected.tag = "Err" => collected.list = <<>>

\* C3: is_valid returns Some(true), Some(false) or None for every variant,
\* Reservation included; it never aborts.
C3_EvaluationNeverFails ==
    Evaluated =>
      /\ outcome.tag = "Returned"
      /\ outcome.value \in {None, Some(TRUE), Some(FALSE)}

\* C4: when the text fields parse, every field other than the two times,
\* the reservation flag included, appends exactly one restriction of its
\* variant carrying its value when given and none when absent.
C4_PerFieldEmission ==
    collected.tag = "Ok" =>
      /\ Count("StartDate") = Given(restriction.start_date)
      /\ IsSome(restriction.start_date) =>
           Entries("StartDate") =
             {StartDate(Unwrap(ParseDate(Unwrap(restriction.start_date)).value))}
      /\ Count("EndDate") = Given(restriction.end_date)
      /\ IsSome(restriction.end_date) =>
           Entries("EndDate") =
             {EndDate(Unwrap(ParseDate(Unwrap(restriction.end_date)).value))}
      /\ Count("MinKwh") = Given(restriction.min_kwh)
      /\ Entries("MinKwh") = {MinKwh(v) : v \in {Unwrap(o) : o \in {restriction.min_kwh} \ {None}}}
      /\ Count("MaxKwh") = Given(restriction.max_kwh)
      /\ Entries("MaxKwh") = {MaxKwh(v) : v \in {Unwrap(o) : o \in {restriction.max_kwh} \ {None}}}
      /\ Count("MinCurrent") = Given(restriction.min_current)
      /\ Entries("MinCurrent") =
           {MinCurrent(v) : v \in {Unwrap(o) : o \in {restriction.min_current} \ {None}}}
      /\ Count("MaxCurrent") = Given(restriction.max_current)
      /\ Entries("MaxCurrent") =
           {MaxCurrent(v) : v \in {Unwrap(o) : o \in {restriction.max_current} \ {None}}}
      /\ Count("MinPower") = Given(restriction.min_power)
      /\ Entries("MinPower") =
           {MinPower(v) : v \in {Unwrap(o) : o \in {restriction.min_power} \ {None}}}
      /\ Count("MaxPower") = Given(restriction.max_power)
      /\ Entries("MaxPower") =
           {MaxPower(v) : v \in {Unwrap(o) : o \in {restriction.max_power} \ {None}}}
      /\ Count("MinDuration") = Given(restriction.min_duration)
      /\ Entries("MinDuration") =
           {MinDuration(DurationSeconds(v).value) :
              v \in {Unwrap(o) : o \in {restriction.min_duration} \ {None}}}
      /\ Count("MaxDuration") = Given(restriction.max_duration)
      /\ Entries("MaxDuration") =
           {MaxDuration(DurationSeconds(v).value) :
              v \in {Unwrap(o) : o \in {restriction.max_duration} \ {None}}}
      /\ Count("Reservation") = Given(restriction.reservation)
      /\ restriction = NoDescriptor => collected.list = <<>>

\* The measurement a variant reads, and the bound it holds.
ReadingOf(r) ==
    CASE r.variant \in {"MinKwh", "MaxKwh"} -> period.start_aggregate.energy
      [] r.variant \in {"MinDuration", "MaxDuration"} -> period.start_aggregate.duration
      [] r.variant = "MinCurrent" -> period.state.min_current
      [] r.variant = "MaxCurrent" -> period.state.max_current
      [] r.variant = "MinPower" -> period.state.min_power
      [] r.variant = "MaxPower" -> period.state.max_power

\* reading >= bound, for numbers and for durations.
Reaches(r) ==
    IF r.variant \in {"MinDuration", "MaxDuration"}
    THEN DurationGe(Unwrap(ReadingOf(r)), r.duration)
    ELSE Unwrap(ReadingOf(r)) >= r.number

MinVariants == {"MinKwh", "MinCurrent", "MinPower", "MinDuration"}

MaxVariants == {"MaxKwh", "MaxCurrent", "MaxPower", "MaxDuration"}

\* C5: a measurement variant returns None exactly when the measurement it
\* reads is missing from the period; otherwise a Min variant returns
\* Some(reading >= bound) and a Max variant Some(reading < bound).
C5_MeasurementTriState ==
    (Evaluated /\ Unwrap(subject).variant \in MinVariants \cup MaxVariants) =>
      LET r == Unwrap(subject) IN
      /\ outcome.tag = "Returned"
      /\ outcome.value = None <=> ReadingOf(r) = None
      /\ IsSome(ReadingOf(r)) =>
           outcome.value = Some(IF r.variant \in MinVariants
                                THEN Reaches(r) ELSE ~Reaches(r))

\* A reading equal to the bound fails a Max variant while another
\* measurement of the period is missing.
C5_Witness ==
    /\ Evaluated
    /\ Unwrap(subject) = MaxKwh(1)
    /\ period.start_aggregate.energy = Some(1)
    /\ period.start_aggregate.duration = None
    /\ outcome = Returned(Some(FALSE))

\* C6: with t and d the period's local start time and date,
\* StartTime(s) = Some(t >= s), EndTime(e) = Some(t < e),
\* WrappingTime(s, e) = Some(t >= s or t < e), StartDate(x) = Some(d >= x),
\* EndDate(x) = Some(d < x), never None; so an overnight WrappingTime is
\* Some(false) exactly for e <= t < s.
C6_HalfOpenTimeAndDate ==
    (Evaluated /\ Unwrap(subject).variant \in
        {"StartTime", "EndTime", "WrappingTime", "StartDate", "EndDate"}) =>
      LET r == Unwrap(subject)
          t == period.local_start_time
          d == period.local_start_date
      IN
      /\ r.variant = "StartTime" => outcome = Returned(Some(~TimeLt(t, r.time)))
      /\ r.variant = "EndTime" => outcome = Returned(Some(TimeLt(t, r.time)))
      /\ r.variant = "WrappingTime" =>
           /\ outcome = Returned(Some(~TimeLt(t, r.start_time) \/ TimeLt(t, r.end_time)))
           /\ TimeLt(r.end_time, r.start_time) =>
                (outcome = Returned(Some(FALSE))
                   <=> (~TimeLt(t, r.end_time) /\ TimeLt(t, r.start_time)))
      /\ r.variant = "StartDate" => outcome = Returned(Some(~DateLt(d, r.date)))
      /\ r.variant = "EndDate" => outcome = Returned(Some(DateLt(d, r.date)))

\* WrappingTime(22:00, 06:00) against a period that starts at 06:00, the
\* exclusive end of the window, with every measurement missing.
C6_Witness ==
    /\ Evaluated
    /\ Unwrap(subject) = WrappingTime(Time(22, 0, 0), Time(6, 0, 0))
    /\ period.local_start_time = Time(6, 0, 0)
    /\ period.start_aggregate.energy = None
    /\ outcome = Returned(Some(FALSE))

\* The weekdays named by the descriptor's tokens.
DaysGiven == {WeekdayFrom(restriction.day_of_week[i]) : i \in DOMAIN restriction.day_of_week}

\* C7: an empty weekday list yields no DayOfWeek; a non-empty one, with or
\* without duplicates, yields exactly one, holding the distinct tokens; and
\* is_valid on it is Some(true) iff the period's weekday is one of them,
\* Some(false) otherwise, never None.
C7_Weekdays ==
    /\ collected.tag = "Ok" =>
         /\ restriction.day_of_week = <<>> => Count("DayOfWeek") = 0
         /\ restriction.day_of_week # <<>> =>
              /\ Count("DayOfWeek") = 1
              /\ Entries("DayOfWeek") = {DayOfWeek(DaysGiven)}
    /\ (Built /\ Evaluated /\ Unwrap(subject).variant = "DayOfWeek") =>
         outcome = Returned(Some(period.local_start_weekday \in DaysGiven))

\* A list with a duplicate token, evaluated against a period of that weekday
\* whose measurements are given.
C7_Witness ==
    /\ Built
    /\ Evaluated
    /\ restriction.day_of_week = <<"TUESDAY", "TUESDAY">>
    /\ Unwrap(subject) = DayOfWeek({"Tue"})
    /\ period.start_aggregate.energy # None
    /\ outcome = Returned(Some(TRUE))

\* Position of a variant in the order of emission.
Rank(v) ==
    CASE v = "WrappingTime" -> 1
      [] v = "StartTime" -> 1
      [] v = "EndTime" -> 2
      [] v = "StartDate" -> 3
      [] v = "EndDate" -> 4
      [] v = "MinKwh" -> 5
      [] v = "MaxKwh" -> 6
      [] v = "MinCurrent" -> 7
      [] v = "MaxCurrent" -> 8
      [] v = "MinPower" -> 9
      [] v = "MaxPower" -> 10
      [] v = "MinDuration" -> 11
      [] v = "MaxDuration" -> 12
      [] v = "DayOfWeek" -> 13
      [] v = "Reservation" -> 14

\* C8: the returned list is in the order time window (WrappingTime, or
\* StartTime then EndTime), StartDate, EndDate, MinKwh, MaxKwh, MinCurrent,
\* MaxCurrent, MinPower, MaxPower, MinDuration, MaxDuration, DayOfWeek, and
\* no variant appears twice.
C8_OrderOfEmission ==
    collected.tag = "Ok" =>
      \A i, j \in DOMAIN collected.list :
        i < j => Rank(collected.list[i].variant) < Rank(collected.list[j].variant)

\* A list with every variant the order names but WrappingTime.
C8_Witness ==
    /\ collected.tag = "Ok"
    /\ Len(collected.list) = 13
    /\ collected.list[1].variant = "StartTime"
    /\ collected.list[13].variant = "DayOfWeek"

\* C9: every WrappingTime the builder returns is an overnight window: its
\* parsed end_time is strictly earlier than its parsed start_time.
C9_WrappingIsOvernight ==
    collected.tag = "Ok" =>
      \A w \in Entries("WrappingTime") : TimeLt(w.end_time, w.start_time)

\* C10: the builder never emits Reservation, so is_valid on an element of a
\* list it returned always returns a value; the abort is reached only from
\* a Reservation built outside the builder.
C10_BuilderNeverReserves ==
    /\ Built => Count("Reservation") = 0
    /\ (Built /\ Evaluated) => outcome.tag = "Returned"
    /\ outcome.tag = "Panicked" => (~Built /\ subject = Some(Reservation))

\* Every element of a list built from a descriptor with the reservation
\* flag set has been evaluated.
C10_Witness ==
    /\ Built
    /\ Evaluated
    /\ IsSome(restriction.reservation)
    /\ pc = "evaluated"
    /\ Unwrap(subject).variant = "DayOfWeek"

===========================================================================
